---- MODULE Spec2Model ----
(***************************************************************************)
(* Session and workflow engine of the G-Hub intake bot.                    *)
(*                                                                         *)
(* src/src/bot.ts (lines 1-299) holds the admission layer (rate limiter,   *)
(* session store, sweep, batched deletion) and the dispatch of inbound     *)
(* events; src/unnamed/part_002 holds the workflow handlers;               *)
(* src/unnamed/part_000 the catalogs and keyboards; src/unnamed/part_001   *)
(* the UserData type.                                                      *)
(*                                                                         *)
(* One action is one inbound event handled from start to end.  The         *)
(* transport (reply / editMessageText / deleteMessage) is an external      *)
(* collaborator: every call either succeeds or throws, chosen              *)
(* nondeterministically.                                                   *)
(***************************************************************************)
EXTENDS Integers, Sequences, FiniteSets, TLC

(***************************************************************************)
(* Program constants (src/src/bot.ts)                                      *)
(***************************************************************************)
USER_DATA_EXPIRY == 604800000
RATE_LIMIT_WINDOW == 60000
MAX_MESSAGES_PER_WINDOW == 30
maxRetries == 3
batchSize == 5

(***************************************************************************)
(* Bounds of the model                                                     *)
(***************************************************************************)
\* number of message ids of one chat that can be in use at the same time
MaxMsgId == 5
\* number of clock advances in one run
MaxTicks == 2
\* number of events one user sends within one rate-limit window, in the
\* specifications that bound it
MaxEvents == 5
\* number of transport calls that fail in one run
MaxFaults == 1
\* number of events one user sends within one window, with two users
MaxSweepEvents == 2
\* length of the list of message ids one call of deleteMessages is given
MaxDelLen == 6
\* number of events of the user in the specification that keeps the history
MaxHistEvents == 4
\* events of one user in the intake specification
MaxIntakeEvents == 4
\* event tasks of one user that are in flight together
MaxTasks == 2
\* service keyboards built for one session
MaxBuilds == 4

Users == {1, 2}

\* inputs of the events
Texts == {"bmw"}
LangTokens == {"de", "xx"}
ServiceTokens == {"tuning", "foo"}
PaymentTokens == {"eur", "zz"}

\* null of a string field; a message id that is null is 0 (ids start at 1,
\* and the code tests ids by truthiness)
NULL == "null"
NoId == 0

(***************************************************************************)
(* Catalogs (src/unnamed/part_000)                                         *)
(***************************************************************************)
LANGUAGE_OPTIONS ==
  {[id |-> "en", manager |-> "Jacob"], [id |-> "de", manager |-> "Jacob"],
   [id |-> "es", manager |-> "Jacob"], [id |-> "ru", manager |-> "Vladislav"],
   [id |-> "uk", manager |-> "Vladislav"]}

SERVICE_OPTIONS == {"video_call", "tuning", "customs", "logistics"}

PAYMENT_OPTIONS == {"eur", "usd", "crypto"}

(***************************************************************************)
(* State                                                                   *)
(***************************************************************************)
VARIABLES
  userDataMap,     \* userId -> UserDataWithTimestamp, on the users with a session
  rateLimitCache,  \* userId -> [count, timestamp], on the users with a window
  now,             \* Date.now()
  ticks,           \* number of clock advances so far
  msgs,            \* per chat: id -> kind, on the selector messages that exist
  faults,          \* number of transport calls that have failed so far
  last,            \* the event handled last, with the transport calls it made
  hist,            \* history of the session of the event handled last, kept
                   \* only by the specifications that start with hist.on
  del,             \* the call of deleteMessages that SpecDelete follows
  tasks,           \* the event tasks in flight that SpecTasks follows: where
                   \* each is suspended, and what they did to the session
  keyboardCache,   \* cache key -> keyboard layout (src/unnamed/part_000 10);
                   \* followed by SpecKeyboard only: the other specifications
                   \* do not model the content of the messages
  built            \* the service keyboard built last, and what it was built for

vars ==
  <<userDataMap, rateLimitCache, now, ticks, msgs, faults, last, hist, del,
    tasks, keyboardCache, built>>

\* initializeUserData, the record of a new session
NewData(t) ==
  [car_request |-> "",
   selected_services |-> {},
   last_selector_message_id |-> NoId,
   payment_method |-> NULL,
   language |-> NULL,
   manager |-> NULL,
   messagesToDelete |-> <<>>,
   keyboard_active |-> FALSE,
   workflow_completed |-> FALSE,
   lastActivity |-> t,
   lastMessageTimestamp |-> t,
   messageCount |-> 0]

RangeOf(s) == {s[i] : i \in DOMAIN s}

(***************************************************************************)
(* The transport, as seen by one handler run.  A context c carries the     *)
(* session object, the chat, the call log and whether an exception is      *)
(* propagating.                                                            *)
(***************************************************************************)
Ctx(ud, m) ==
  [ud |-> ud, msgs |-> m, sent |-> NoId, log |-> <<>>, threw |-> FALSE,
   full |-> FALSE]

\* The program only stores message ids and compares them, so the transport is
\* modelled as handing out the smallest id that names neither a selector
\* message still in the chat nor a message the session still refers to.
InUse(c) ==
  DOMAIN c.msgs \cup RangeOf(c.ud.messagesToDelete)
    \cup {c.ud.last_selector_message_id}

FreshId(c) ==
  IF \A i \in 1..MaxMsgId : i \in InUse(c) THEN MaxMsgId + 1
  ELSE CHOOSE i \in 1..MaxMsgId :
         /\ i \notin InUse(c)
         /\ \A j \in 1..(i - 1) : j \in InUse(c)

\* the kinds of message that carry a selector keyboard
SelectorKinds == {"services", "payment"}

Call(op, kind, id, ok, tries) ==
  [op |-> op, kind |-> kind, id |-> id, ok |-> ok, tries |-> tries]

\* ctx.reply whose message_id the caller reads
Reply(c, kind, ok) ==
  IF c.threw THEN c
  ELSE IF ~ok
    THEN [c EXCEPT !.threw = TRUE,
                   !.log = Append(@, Call("send", kind, NoId, FALSE, 1))]
    ELSE [c EXCEPT !.msgs = IF kind \in SelectorKinds
                                     THEN (FreshId(c) :> kind) @@ @ ELSE @,
                   !.sent = FreshId(c),
                   !.full = @ \/ FreshId(c) > MaxMsgId,
                   !.log = Append(@, Call("send", kind, FreshId(c), TRUE, 1))]

\* ctx.reply whose result the caller drops: the message gets no tracked id
ReplyDropped(c, kind, ok) ==
  IF c.threw THEN c
  ELSE [c EXCEPT !.threw = ~ok,
                 !.log = Append(@, Call("send", kind, NoId, ok, 1))]

\* message_id of the message the last successful Reply sent
SentId(c) == c.sent

\* a synchronous update of the session, skipped while an exception propagates
Upd(c, ud) == IF c.threw THEN c ELSE [c EXCEPT !.ud = ud]

Without(m, id) == [k \in (DOMAIN m) \ {id} |-> m[k]]

\* ctx.api.deleteMessage inside try/catch: one attempt on the selector message
DeleteOnce(c, id, ok) ==
  IF c.threw THEN c
  ELSE IF ok
    THEN [c EXCEPT !.msgs = Without(@, id),
                   !.log = Append(@, Call("delete", "", id, TRUE, 1))]
    ELSE [c EXCEPT !.log = Append(@, Call("delete", "", id, FALSE, 1))]


\* One attempt of deleteMessages on a message id: ctx.api.deleteMessage.
Attempt(messageId, ok) ==
  [op |-> "deleteMessage", id |-> messageId, ok |-> ok, ms |-> 0]

\* One pause of deleteMessages: await new Promise(r => setTimeout(r, ms)).
Wait(ms) == [op |-> "setTimeout", id |-> NoId, ok |-> TRUE, ms |-> ms]

\* Math.min(1000 * Math.pow(2, retries), 10000)
Backoff(retries) ==
  IF 1000 * 2^retries < 10000 THEN 1000 * 2^retries ELSE 10000

\* the retry loop whose condition admits one attempt more
RECURSIVE RetryLoop_OneMore(_, _, _)
RetryLoop_OneMore(messageId, fails, retries) ==
  IF ~(retries <= maxRetries) THEN <<>>
  ELSE IF retries >= fails THEN <<Attempt(messageId, TRUE)>>
  ELSE <<Attempt(messageId, FALSE)>>
         \o (IF retries + 1 = maxRetries THEN <<>>
             ELSE <<Wait(Backoff(retries + 1))>>)
         \o RetryLoop_OneMore(messageId, fails, retries + 1)

\* the retry loop that breaks on its first success, run to maxRetries attempts
\* regardless
RECURSIVE RetryLoop_NoBreak(_, _, _)
RetryLoop_NoBreak(messageId, fails, retries) ==
  IF ~(retries < maxRetries) THEN <<>>
  ELSE <<Attempt(messageId, retries >= fails)>>
         \o RetryLoop_NoBreak(messageId, fails, retries + 1)

\* The while loop of deleteMessages for one message id, from `retries` on:
\* the attempts it makes, and the pauses between them, when the first `fails`
\* attempts on the id throw.
\* Every call that can throw sits inside the try, so the loop itself ends
\* by break or by its condition, never by an exception.
RECURSIVE RetryLoop(_, _, _)
RetryLoop(messageId, fails, retries) ==
  IF ~(retries < maxRetries) THEN <<>>
  ELSE IF retries >= fails THEN <<Attempt(messageId, TRUE)>>
  ELSE <<Attempt(messageId, FALSE)>>
         \o (IF retries + 1 = maxRetries THEN <<>>
             ELSE <<Wait(Backoff(retries + 1))>>)
         \o RetryLoop(messageId, fails, retries + 1)

\* messageIds.slice(i, i + batchSize), with i = from - 1
Batch(ids, from) ==
  SubSeq(ids, from, IF from + batchSize - 1 > Len(ids) THEN Len(ids)
                    ELSE from + batchSize - 1)

\* Promise.all over one batch: the attempts of its ids.  The loops of a batch
\* run interleaved; they share nothing, and the attempts are listed id by id.
RECURSIVE BatchAttempts(_, _)
BatchAttempts(batch, fails) ==
  IF batch = <<>> THEN <<>>
  ELSE RetryLoop(Head(batch), fails[Head(batch)], 0)
         \o BatchAttempts(Tail(batch), fails)

\* one id of deleteMessages within a handler run: the attempts fail `fails`
\* times in a row; the id is deleted iff the last attempt of its loop succeeded,
\* and the log keeps one entry with the number of attempts made
DeleteWithRetries(c, id, fails) ==
  LET made == RetryLoop(id, fails, 0)
      ok == made[Len(made)].ok
      tries == Cardinality({k \in DOMAIN made : made[k].op = "deleteMessage"})
  IN  [c EXCEPT !.msgs = IF ok THEN Without(@, id) ELSE @,
                !.log = Append(@, Call("delete", "", id, ok, tries))]

\* the numbers of failing attempts the workflow specification draws from: the
\* first attempt succeeds, or every attempt fails
FailCounts == {0, maxRetries}

\* deleteMessages: every id of the list in turn; never throws
RECURSIVE DeleteMessages(_, _, _)
DeleteMessages(c, ids, fails) ==
  IF ids = <<>> THEN c
  ELSE DeleteMessages(DeleteWithRetries(c, Head(ids), fails[Head(ids)]),
                      Tail(ids), fails)

\* the retraction that deletes the pending messages and keeps the list
RetractPending_KeepsList(c, fails) ==
  IF c.ud.keyboard_active THEN c
  ELSE DeleteMessages(c, c.ud.messagesToDelete, fails)

\* the dispatchers' "if (!userData.keyboard_active) { deleteMessages; = [] }"
RetractPending(c, fails) ==
  IF c.ud.keyboard_active THEN c
  ELSE [DeleteMessages(c, c.ud.messagesToDelete, fails)
          EXCEPT !.ud.messagesToDelete = <<>>]

\* the handlers' "delete the selector message if it exists": the id is
\* cleared only when the delete call succeeded
DeleteSelector(c, ok) ==
  IF c.ud.last_selector_message_id = NoId THEN c
  ELSE LET c1 == DeleteOnce(c, c.ud.last_selector_message_id, ok)
       IN  IF ok THEN Upd(c1, [c1.ud EXCEPT !.last_selector_message_id = NoId])
           ELSE c1

(***************************************************************************)
(* Keyboards (src/unnamed/part_000)                                        *)
(***************************************************************************)
\* The ids a toggle button can carry: two of the catalog, and one that no
\* button of the bot carries but that the pattern toggle_(.+) accepts.
KeyboardTokens == {"customs", "tuning", "customs,tuning"}

\* the tokens in the order of Array.prototype.sort (by UTF-16 code units)
SortOrder == <<"customs", "customs,tuning", "tuning">>

\* Array.from(selectedServices).sort()
Sorted(selectedServices) ==
  LET In(x) == x \in selectedServices IN SelectSeq(SortOrder, In)

\* Array.prototype.join(",")
RECURSIVE Join(_)
Join(strings) ==
  IF strings = <<>> THEN ""
  ELSE IF Len(strings) = 1 THEN Head(strings)
  ELSE Head(strings) \o "," \o Join(Tail(strings))

\* `services_${language}_${Array.from(selectedServices).sort().join(",")}`
CacheKey(selectedServices, language) ==
  "services_" \o language \o "_" \o Join(Sorted(selectedServices))

\* The keyboard the factory builds: one button per catalog service, with a
\* checkmark iff selectedServices.has(option.id), texts in `language`.
ServicesLayout(selectedServices, language) ==
  [checked |-> selectedServices \cap SERVICE_OPTIONS, language |-> language]

\* createCachedKeyboard: the cache after the call and the keyboard returned
createCachedKeyboard(cache, key, layout) ==
  LET after == IF key \in DOMAIN cache THEN cache ELSE (key :> layout) @@ cache
  IN  [cache |-> after, keyboard |-> after[key]]

createServicesKeyboard(cache, selectedServices, language) ==
  createCachedKeyboard(cache, CacheKey(selectedServices, language),
                       ServicesLayout(selectedServices, language))

(***************************************************************************)
(* Workflow handlers (src/unnamed/part_002).  f is the number of the       *)
(* ctx.reply call of the handler that throws, 0 if none does.              *)
(***************************************************************************)
\* a reset that keeps the language and the operator of the session
StartReset_KeepsLanguage(ud) ==
  [ud EXCEPT !.car_request = "",
             !.selected_services = {},
             !.last_selector_message_id = NoId,
             !.payment_method = NULL,
             !.messagesToDelete = <<>>,
             !.keyboard_active = FALSE,
             !.workflow_completed = FALSE]

\* the fields handleStart writes before its first send
StartReset(ud) ==
  [ud EXCEPT !.car_request = "",
             !.selected_services = {},
             !.last_selector_message_id = NoId,
             !.payment_method = NULL,
             !.language = NULL,
             !.manager = NULL,
             !.messagesToDelete = <<>>,
             !.keyboard_active = FALSE,
             !.workflow_completed = FALSE]

handleStart(c, f) ==
  LET c0 == Upd(c, StartReset(c.ud))
      c1 == ReplyDropped(c0, "welcome_en", f # 1)
      c2 == ReplyDropped(c1, "welcome_ru", f # 2)
      c3 == Reply(c2, "language", f # 3)
  IN  Upd(c3, [c3.ud EXCEPT !.messagesToDelete = Append(@, SentId(c3)),
                            !.keyboard_active = TRUE])

\* handleLanguageSelection that assigns no operator
handleLanguageSelection_NoOperator(c, languageId, f) ==
  IF \A opt \in LANGUAGE_OPTIONS : opt.id # languageId THEN c
  ELSE
    LET c0 == Upd(c, [c.ud EXCEPT !.language = languageId,
                                  !.keyboard_active = FALSE])
        c1 == Reply(c0, "carRequest", f # 1)
    IN  Upd(c1, [c1.ud EXCEPT !.messagesToDelete = Append(@, SentId(c1))])

handleLanguageSelection(c, languageId, f) ==
  IF \A opt \in LANGUAGE_OPTIONS : opt.id # languageId THEN c
  ELSE
    LET opt == CHOOSE o \in LANGUAGE_OPTIONS : o.id = languageId
        c0 == Upd(c, [c.ud EXCEPT !.language = languageId,
                                  !.manager = opt.manager,
                                  !.keyboard_active = FALSE])
        c1 == Reply(c0, "carRequest", f # 1)
    IN  Upd(c1, [c1.ud EXCEPT !.messagesToDelete = Append(@, SentId(c1))])

handleCarRequest(c, messageText, f) ==
  LET c0 == Upd(c, [c.ud EXCEPT !.car_request = messageText,
                                !.keyboard_active = TRUE])
      c1 == Reply(c0, "services", f # 1)
  IN  Upd(c1, [c1.ud EXCEPT !.last_selector_message_id = SentId(c1)])

\* a toggle that only ever selects
Toggle_AddOnly(services, serviceId) == services \cup {serviceId}

\* the membership flip of handleServiceToggle
Toggle(services, serviceId) ==
  IF serviceId \in services THEN services \ {serviceId}
  ELSE services \cup {serviceId}

\* ctx.api.editMessageText with the service text and keyboard
EditToServices(c, id, ok) ==
  IF ok
    THEN [c EXCEPT !.msgs = [@ EXCEPT ![id] = "services"],
                   !.log = Append(@, Call("edit", "services", id, TRUE, 1))]
    ELSE [c EXCEPT !.log = Append(@, Call("edit", "services", id, FALSE, 1))]

\* handleServiceToggle whose fallback forgets to record the new message id
handleServiceToggle_NoTracking(c, serviceId, editOk, f) ==
  LET c0 == Upd(c, [c.ud EXCEPT !.selected_services = Toggle(@, serviceId)])
      sel == c0.ud.last_selector_message_id
  IN  IF sel = NoId THEN c0
      ELSE IF editOk THEN EditToServices(c0, sel, TRUE)
      ELSE Reply(EditToServices(c0, sel, FALSE), "services", f # 1)

handleServiceToggle(c, serviceId, editOk, f) ==
  LET c0 == Upd(c, [c.ud EXCEPT !.selected_services = Toggle(@, serviceId)])
      sel == c0.ud.last_selector_message_id
  IN  IF sel = NoId THEN c0
      ELSE IF editOk THEN EditToServices(c0, sel, TRUE)
      ELSE LET c1 == EditToServices(c0, sel, FALSE)
               c2 == Reply(c1, "services", f # 1)
           IN  Upd(c2, [c2.ud EXCEPT !.last_selector_message_id = SentId(c2)])

\* handleServiceConfirmation without the test for an empty selection
handleServiceConfirmation_NoCheck(c, delOk, f) ==
  LET c0 == DeleteSelector(c, delOk)
      c1 == Upd(c0, [c0.ud EXCEPT !.keyboard_active = TRUE])
      c2 == Reply(c1, "payment", f # 1)
  IN  Upd(c2, [c2.ud EXCEPT !.last_selector_message_id = SentId(c2)])

\* handleServiceConfirmation that leaves the service keyboard in the chat
handleServiceConfirmation_NoDelete(c, delOk, f) ==
  IF c.ud.selected_services = {}
    THEN ReplyDropped(c, "noServicesSelected", f # 1)
    ELSE LET c1 == Upd(c, [c.ud EXCEPT !.keyboard_active = TRUE])
             c2 == Reply(c1, "payment", f # 1)
         IN  Upd(c2, [c2.ud EXCEPT !.last_selector_message_id = SentId(c2)])

handleServiceConfirmation(c, delOk, f) ==
  IF c.ud.selected_services = {}
    THEN ReplyDropped(c, "noServicesSelected", f # 1)
    ELSE LET c0 == DeleteSelector(c, delOk)
             c1 == Upd(c0, [c0.ud EXCEPT !.keyboard_active = TRUE])
             c2 == Reply(c1, "payment", f # 1)
         IN  Upd(c2, [c2.ud EXCEPT !.last_selector_message_id = SentId(c2)])

\* GROUP_CHAT_ID of the environment is configured
GroupChatConfigured == TRUE

\* sendDataToAdmin without its try/catch: a failed send propagates
sendDataToAdmin_Rethrows(c, adminOk) ==
  IF c.threw \/ ~GroupChatConfigured THEN c
  ELSE [c EXCEPT !.threw = ~adminOk,
                 !.log = Append(@, Call("notify", "order", NoId, adminOk, 1))]

\* sendDataToAdmin: a failed send is caught and logged
sendDataToAdmin(c, adminOk) ==
  IF c.threw \/ ~GroupChatConfigured THEN c
  ELSE [c EXCEPT !.log = Append(@, Call("notify", "order", NoId, adminOk, 1))]

\* getTranslation resolves buttons.services.<id> only for the catalog's ids;
\* for any other id the looked-up text is undefined and the call throws
ServiceLabelsResolve(services) == services \subseteq SERVICE_OPTIONS

handlePaymentSelection(c, paymentId, delOk, f, adminOk) ==
  IF paymentId \notin PAYMENT_OPTIONS THEN c
  ELSE
    LET c0 == Upd(c, [c.ud EXCEPT !.payment_method = paymentId])
        c1 == DeleteSelector(c0, delOk)
        c2 == IF ServiceLabelsResolve(c1.ud.selected_services) THEN c1
              ELSE [c1 EXCEPT !.threw = TRUE]
        c3 == Reply(c2, "summary", f # 1)
        c4 == Upd(c3, [c3.ud EXCEPT !.messagesToDelete = Append(@, SentId(c3))])
        c5 == sendDataToAdmin(c4, adminOk)
        c6 == Reply(c5, "managerInfo", f # 2)
        c7 == Upd(c6, [c6.ud EXCEPT !.messagesToDelete = Append(@, SentId(c6))])
        c8 == Reply(c7, "askManagerMessage", f # 3)
        c9 == Upd(c8, [c8.ud EXCEPT !.messagesToDelete = Append(@, SentId(c8))])
    IN  Upd(c9, [c9.ud EXCEPT !.workflow_completed = TRUE])

\* handleBackToCarRequest that also reopens a completed workflow
handleBackToCarRequest_Reopens(c, delOk, f) ==
  LET c0 == Upd(c, [c.ud EXCEPT !.selected_services = {},
                                !.payment_method = NULL,
                                !.keyboard_active = FALSE,
                                !.workflow_completed = FALSE])
      c1 == DeleteSelector(c0, delOk)
      c2 == Reply(c1, "carRequest", f # 1)
  IN  Upd(c2, [c2.ud EXCEPT !.messagesToDelete = Append(@, SentId(c2))])

\* handleBackToCarRequest that clears the selection only after a successful
\* delete of the selector
handleBackToCarRequest_KeepsServices(c, delOk, f) ==
  LET c0 == Upd(c, [c.ud EXCEPT !.selected_services = IF delOk THEN {} ELSE @,
                                !.payment_method = NULL,
                                !.keyboard_active = FALSE])
      c1 == DeleteSelector(c0, delOk)
      c2 == Reply(c1, "carRequest", f # 1)
  IN  Upd(c2, [c2.ud EXCEPT !.messagesToDelete = Append(@, SentId(c2))])

handleBackToCarRequest(c, delOk, f) ==
  LET c0 == Upd(c, [c.ud EXCEPT !.selected_services = {},
                                !.payment_method = NULL,
                                !.keyboard_active = FALSE])
      c1 == DeleteSelector(c0, delOk)
      c2 == Reply(c1, "carRequest", f # 1)
  IN  Upd(c2, [c2.ud EXCEPT !.messagesToDelete = Append(@, SentId(c2))])

\* handleBackToServices that resets the selection as well
handleBackToServices_ClearsServices(c, delOk, f) ==
  LET c0 == Upd(c, [c.ud EXCEPT !.payment_method = NULL,
                                !.selected_services = {},
                                !.keyboard_active = TRUE])
      c1 == DeleteSelector(c0, delOk)
      c2 == Reply(c1, "services", f # 1)
  IN  Upd(c2, [c2.ud EXCEPT !.last_selector_message_id = SentId(c2)])

handleBackToServices(c, delOk, f) ==
  LET c0 == Upd(c, [c.ud EXCEPT !.payment_method = NULL,
                                !.keyboard_active = TRUE])
      c1 == DeleteSelector(c0, delOk)
      c2 == Reply(c1, "services", f # 1)
  IN  Upd(c2, [c2.ud EXCEPT !.last_selector_message_id = SentId(c2)])

\* handleTextMessage that does not track its warning
handleTextMessage_NoTracking(c, f) ==
  IF c.ud.workflow_completed
    THEN ReplyDropped(c, "askManagerMessage", f # 1)
  ELSE IF c.ud.keyboard_active
    THEN Reply(c, "pleaseUseKeyboard", f # 1)
  ELSE c

handleTextMessage(c, f) ==
  IF c.ud.workflow_completed
    THEN ReplyDropped(c, "askManagerMessage", f # 1)
  ELSE IF c.ud.keyboard_active
    THEN LET c1 == Reply(c, "pleaseUseKeyboard", f # 1)
         IN  Upd(c1, [c1.ud EXCEPT !.messagesToDelete = Append(@, SentId(c1))])
  ELSE c


(***************************************************************************)
(* Admission control (src/src/bot.ts)                                      *)
(***************************************************************************)
\* isRateLimited with the ceiling tested by > instead of >=
isRateLimited_OffByOne(cache, userId, t) ==
  IF userId \notin DOMAIN cache \/ t - cache[userId].timestamp > RATE_LIMIT_WINDOW
    THEN [limited |-> FALSE,
          cache |-> (userId :> [count |-> 1, timestamp |-> t]) @@ cache]
  ELSE IF cache[userId].count > MAX_MESSAGES_PER_WINDOW
    THEN [limited |-> TRUE, cache |-> cache]
  ELSE [limited |-> FALSE,
        cache |-> [cache EXCEPT ![userId].count = @ + 1]]

\* isRateLimited that admits without counting
isRateLimited_NoCount(cache, userId, t) ==
  IF userId \notin DOMAIN cache \/ t - cache[userId].timestamp > RATE_LIMIT_WINDOW
    THEN [limited |-> FALSE,
          cache |-> (userId :> [count |-> 1, timestamp |-> t]) @@ cache]
  ELSE [limited |-> cache[userId].count >= MAX_MESSAGES_PER_WINDOW,
        cache |-> cache]

\* isRateLimited that counts the events it rejects
isRateLimited_CountsRejected(cache, userId, t) ==
  IF userId \notin DOMAIN cache \/ t - cache[userId].timestamp > RATE_LIMIT_WINDOW
    THEN [limited |-> FALSE,
          cache |-> (userId :> [count |-> 1, timestamp |-> t]) @@ cache]
  ELSE [limited |-> cache[userId].count >= MAX_MESSAGES_PER_WINDOW,
        cache |-> [cache EXCEPT ![userId].count = @ + 1]]

\* isRateLimited: the verdict and the cache after the call
isRateLimited(cache, userId, t) ==
  IF userId \notin DOMAIN cache \/ t - cache[userId].timestamp > RATE_LIMIT_WINDOW
    THEN [limited |-> FALSE,
          cache |-> (userId :> [count |-> 1, timestamp |-> t]) @@ cache]
  ELSE IF cache[userId].count >= MAX_MESSAGES_PER_WINDOW
    THEN [limited |-> TRUE, cache |-> cache]
  ELSE [limited |-> FALSE,
        cache |-> [cache EXCEPT ![userId].count = @ + 1]]

\* initializeUserData: the session store after the call
initializeUserData(map, userId, t) ==
  IF userId \in DOMAIN map
    THEN [map EXCEPT ![userId].lastActivity = t]
    ELSE (userId :> NewData(t)) @@ map

\* the users cleanupInactiveUserData removes
inactiveUsers(map, t) ==
  {u \in DOMAIN map : t - map[u].lastActivity > USER_DATA_EXPIRY}

Restrict(m, keep) == [k \in keep |-> m[k]]

(***************************************************************************)
(* Dispatch of one inbound event (src/src/bot.ts 171-281)                  *)
(***************************************************************************)
\* the session an event finds, before initializeUserData touches it
PreSession(u) == IF u \in DOMAIN userDataMap THEN userDataMap[u] ELSE NewData(now)

Event(kind, u, arg) == [kind |-> kind, user |-> u, arg |-> arg]

\* the context the handler starts in: the session after initializeUserData
Entry(u) == Ctx(initializeUserData(userDataMap, u, now)[u], msgs[u])

\* the failure patterns of the batched deletion an event of u runs
FailPatterns(u) ==
  [(IF PreSession(u).keyboard_active THEN {}
    ELSE RangeOf(PreSession(u).messagesToDelete)) -> FailCounts]

\* the history after an event of ev.user that leaves the record l in `last`:
\* the event handled before it, the services the session had selected before
\* the event and before the one before it, and the number of operator
\* notifications (counted up to 2) since the last start command
Recorded(ev, l) ==
  IF ~hist.on THEN hist
  ELSE [on |-> TRUE,
        prev |-> [ev |-> last.ev, admitted |-> last.admitted],
        before |-> PreSession(ev.user).selected_services,
        before2 |-> hist.before,
        notified |->
          IF ev.kind = "start" /\ l.admitted THEN 0
          ELSE LET n == hist.notified
                          + Cardinality({i \in DOMAIN l.log : l.log[i].op = "notify"})
               IN  IF n > 2 THEN 2 ELSE n]

\* handleCallbackQuery / bot.command / bot.on: the rate limiter decides first;
\* a rejected event sends one notice and returns; an admitted one runs its
\* handler, whose possible final contexts are `runs`, and an exception that
\* reaches the catch is answered with the error notice
Failed(log) == Cardinality({i \in DOMAIN log : ~log[i].ok})

Dispatch(ev, runs) ==
  LET r == isRateLimited(rateLimitCache, ev.user, now) IN
  /\ rateLimitCache' = r.cache
  /\ IF r.limited
       THEN /\ \E ok \in BOOLEAN :
                 last' = [ev |-> ev, admitted |-> FALSE, threw |-> FALSE,
                          log |-> <<Call("send", "rateLimitNotice", NoId, ok, 1)>>]
            /\ UNCHANGED <<userDataMap, msgs>>
       ELSE \E c \in runs :
              /\ ~c.full
              /\ userDataMap' = (ev.user :> c.ud) @@ userDataMap
              /\ msgs' = [msgs EXCEPT ![ev.user] = c.msgs]
              /\ \E ok \in (IF c.threw THEN BOOLEAN ELSE {TRUE}) :
                   last' = [ev |-> ev, admitted |-> TRUE, threw |-> c.threw,
                            log |-> IF c.threw
                                      THEN Append(c.log, Call("send", "errorNotice",
                                                              NoId, ok, 1))
                                      ELSE c.log]
  /\ faults' = faults + Failed(last'.log)
  /\ faults' <= MaxFaults
  /\ hist' = Recorded(ev, last')
  /\ UNCHANGED <<keyboardCache, built>>
  /\ UNCHANGED <<now, ticks, del, tasks>>

\* the outcomes of the one delete or edit call on the selector message
SelectorOutcomes(c) ==
  IF c.ud.last_selector_message_id = NoId THEN {TRUE} ELSE BOOLEAN

\* bot.command("start")
Start(u) ==
  Dispatch(Event("start", u, ""), {handleStart(Entry(u), f) : f \in 0..3})

\* the contexts in which a callback or text handler starts: the pending
\* messages retracted unless the keyboard is active
Retracted(u) == {RetractPending(Entry(u), fails) : fails \in FailPatterns(u)}

LangPress(u, languageId) ==
  Dispatch(Event("lang", u, languageId),
           UNION {{handleLanguageSelection(c, languageId, f) : f \in 0..1}
                    : c \in Retracted(u)})

BackToCarRequestPress(u) ==
  Dispatch(Event("back_to_car_request", u, ""),
           UNION {{handleBackToCarRequest(c, delOk, f)
                     : delOk \in SelectorOutcomes(c), f \in 0..1}
                    : c \in Retracted(u)})

BackToServicesPress(u) ==
  Dispatch(Event("back_to_services", u, ""),
           UNION {{handleBackToServices(c, delOk, f)
                     : delOk \in SelectorOutcomes(c), f \in 0..1}
                    : c \in Retracted(u)})

TogglePress(u, serviceId) ==
  Dispatch(Event("toggle", u, serviceId),
           UNION {{handleServiceToggle(c, serviceId, editOk, f)
                     : editOk \in SelectorOutcomes(c), f \in 0..1}
                    : c \in Retracted(u)})

ConfirmPress(u) ==
  Dispatch(Event("confirm_services", u, ""),
           UNION {{handleServiceConfirmation(c, delOk, f)
                     : delOk \in SelectorOutcomes(c), f \in 0..1}
                    : c \in Retracted(u)})

PaymentPress(u, paymentId) ==
  Dispatch(Event("payment", u, paymentId),
           UNION {{handlePaymentSelection(c, paymentId, delOk, f, adminOk)
                     : delOk \in SelectorOutcomes(c), f \in 0..3,
                       adminOk \in BOOLEAN}
                    : c \in Retracted(u)})

\* the text dispatcher without its keyboard_active test
TextRun_IgnoresKeyboard(c, messageText, f) ==
  IF c.ud.language = NULL THEN c
  ELSE handleCarRequest(c, messageText, f)

\* bot.on("message:text")
TextRun(c, messageText, f) ==
  IF c.ud.keyboard_active THEN handleTextMessage(c, f)
  ELSE IF c.ud.language = NULL THEN c
  ELSE handleCarRequest(c, messageText, f)

TextMessage(u, messageText) ==
  Dispatch(Event("text", u, messageText),
           UNION {{TextRun(c, messageText, f) : f \in 0..1} : c \in Retracted(u)})

\* a callback token that matches none of the registered patterns: no handler
\* runs, not even the rate limiter
UnmatchedPress(u) ==
  /\ last' = [ev |-> Event("unmatched", u, "garbage"), admitted |-> FALSE,
              threw |-> FALSE, log |-> <<>>]
  /\ hist' = Recorded(Event("unmatched", u, "garbage"), last')
  /\ UNCHANGED <<keyboardCache, built>>
  /\ UNCHANGED <<userDataMap, rateLimitCache, now, ticks, msgs, faults, del, tasks>>

\* cleanupInactiveUserData that removes the windows and leaves the sessions
Sweep_KeepsSessions ==
  LET gone == inactiveUsers(userDataMap, now) IN
  /\ rateLimitCache' = Restrict(rateLimitCache, DOMAIN rateLimitCache \ gone)
  /\ last' = [ev |-> Event("sweep", 0, ""), admitted |-> FALSE, threw |-> FALSE,
              log |-> IF gone = {} THEN <<>>
                      ELSE <<Call("console.log", "cleaned", Cardinality(gone),
                                  TRUE, 1)>>]
  /\ UNCHANGED <<keyboardCache, built>>
  /\ UNCHANGED <<userDataMap, now, ticks, msgs, faults, hist, del, tasks>>

\* cleanupInactiveUserData that leaves the rate-limit windows behind
Sweep_KeepsWindows ==
  LET gone == inactiveUsers(userDataMap, now) IN
  /\ userDataMap' = Restrict(userDataMap, DOMAIN userDataMap \ gone)
  /\ last' = [ev |-> Event("sweep", 0, ""), admitted |-> FALSE, threw |-> FALSE,
              log |-> IF gone = {} THEN <<>>
                      ELSE <<Call("console.log", "cleaned", Cardinality(gone),
                                  TRUE, 1)>>]
  /\ UNCHANGED <<keyboardCache, built>>
  /\ UNCHANGED <<rateLimitCache, now, ticks, msgs, faults, hist, del, tasks>>

\* cleanupInactiveUserData, fired by the interval timer
Sweep ==
  LET gone == inactiveUsers(userDataMap, now) IN
  /\ userDataMap' = Restrict(userDataMap, DOMAIN userDataMap \ gone)
  /\ rateLimitCache' = Restrict(rateLimitCache, DOMAIN rateLimitCache \ gone)
  /\ last' = [ev |-> Event("sweep", 0, ""), admitted |-> FALSE, threw |-> FALSE,
              log |-> IF gone = {} THEN <<>>
                      ELSE <<Call("console.log", "cleaned", Cardinality(gone),
                                  TRUE, 1)>>]
  /\ UNCHANGED <<keyboardCache, built>>
  /\ UNCHANGED <<now, ticks, msgs, faults, hist, del, tasks>>

\* deleteMessages is called: an empty list returns at once, any other list
\* is cut into batches
DeleteEnter ==
  /\ del.pc = "called"
  /\ del' = [del EXCEPT !.pc = IF del.ids = <<>> THEN "returned" ELSE "batches"]
  /\ UNCHANGED <<keyboardCache, built>>
  /\ UNCHANGED <<userDataMap, rateLimitCache, now, ticks, msgs, faults, last, hist,
                 tasks>>

\* a pause after every batch, the last included
BatchPause_AfterEvery(ids, from) == <<Wait(1000)>>

\* "if (batches.indexOf(batch) < batches.length - 1) await ... 1000": the pause
\* after the batch that starts at `from`, unless it is the last
BatchPause(ids, from) ==
  IF from + batchSize <= Len(ids) THEN <<Wait(1000)>> ELSE <<>>

\* deleteMessages runs its next batch to the end, pauses, and returns after
\* the last
DeleteBatch ==
  /\ del.pc = "batches"
  /\ del' = [del EXCEPT
               !.log = @ \o BatchAttempts(Batch(del.ids, del.next), del.fails)
                         \o BatchPause(del.ids, del.next),
               !.next = @ + batchSize,
               !.pc = IF del.next + batchSize > Len(del.ids) THEN "returned"
                      ELSE "batches"]
  /\ UNCHANGED <<keyboardCache, built>>
  /\ UNCHANGED <<userDataMap, rateLimitCache, now, ticks, msgs, faults, last, hist,
                 tasks>>

\* the clock advances
TickDeltas == {1, RATE_LIMIT_WINDOW, USER_DATA_EXPIRY}

Tick(d) ==
  /\ ticks < MaxTicks
  /\ now' = now + d
  /\ ticks' = ticks + 1
  /\ last' = [ev |-> Event("tick", 0, ""), admitted |-> FALSE, threw |-> FALSE,
              log |-> <<>>]
  /\ UNCHANGED <<keyboardCache, built>>
  /\ UNCHANGED <<userDataMap, rateLimitCache, msgs, faults, hist, del, tasks>>

NoEvent ==
  [ev |-> Event("none", 0, ""), admitted |-> FALSE, threw |-> FALSE,
   log |-> <<>>]

\* no history is kept
NoHist ==
  [on |-> FALSE, prev |-> [ev |-> Event("none", 0, ""), admitted |-> FALSE],
   before |-> {}, before2 |-> {}, notified |-> 0]

\* no call of deleteMessages is followed
NoDel == [ids |-> <<>>, fails |-> <<>>, next |-> 1, log |-> <<>>, pc |-> "idle"]

\* the event tasks of the user that may be in flight together
Tasks == 1..MaxTasks

\* no task is followed
NoTasks ==
  [pc |-> [t \in Tasks |-> "off"],
   ev |-> [t \in Tasks |-> Event("none", 0, "")],
   verdict |-> [t \in Tasks |-> "none"],
   messageIds |-> [t \in Tasks |-> <<>>],
   nextId |-> 1, pushed |-> {}, attempted |-> {}, replaced |-> {},
   flips |-> [x \in ServiceTokens |-> 0], base |-> {}, admits |-> 0]

\* no service keyboard has been built
NoBuild ==
  [selectedServices |-> {}, language |-> NULL,
   keyboard |-> [checked |-> {}, language |-> NULL], n |-> 0]

\* the process after construction: no session, no window
Fresh ==
  /\ userDataMap = <<>>
  /\ rateLimitCache = <<>>
  /\ now = 0
  /\ ticks = 0
  /\ msgs = [u \in Users |-> <<>>]
  /\ faults = 0
  /\ last = NoEvent
  /\ keyboardCache = <<>>
  /\ built = NoBuild

Init ==
  /\ Fresh
  /\ hist = NoHist
  /\ del = NoDel
  /\ tasks = NoTasks

\* the number of events of u the current window has counted
Burst(u) == IF u \in DOMAIN rateLimitCache THEN rateLimitCache[u].count ELSE 0

\* The workflow of one user: every event kind in every state, with every
\* outcome of the transport calls, for at most MaxEvents events arriving
\* within one rate-limit window.
Next ==
  \/ Burst(1) < MaxEvents /\ Start(1)
  \/ Burst(1) < MaxEvents /\ \E l \in LangTokens : LangPress(1, l)
  \/ Burst(1) < MaxEvents /\ \E t \in Texts : TextMessage(1, t)
  \/ Burst(1) < MaxEvents /\ \E s \in ServiceTokens : TogglePress(1, s)
  \/ Burst(1) < MaxEvents /\ ConfirmPress(1)
  \/ Burst(1) < MaxEvents /\ BackToCarRequestPress(1)
  \/ Burst(1) < MaxEvents /\ BackToServicesPress(1)
  \/ Burst(1) < MaxEvents /\ \E p \in PaymentTokens : PaymentPress(1, p)
  \/ Burst(1) < MaxEvents /\ UnmatchedPress(1)

Spec == Init /\ [][Next]_vars


\* Admission control of one user: events without a bound on their number, so
\* that the ceiling is reached, the clock, and the sweep.
NextAdmission ==
  \/ Start(1)
  \/ \E t \in Texts : TextMessage(1, t)
  \/ \E d \in TickDeltas : Tick(d)
  \/ Sweep

SpecAdmission == Init /\ [][NextAdmission]_vars

\* One window of one user filled to the ceiling and beyond by events of the
\* three dispatchers: the start command, free text and a button press.
NextRejection ==
  \/ Start(1)
  \/ \E t \in Texts : TextMessage(1, t)
  \/ \E l \in LangTokens : LangPress(1, l)

SpecRejection == Init /\ [][NextRejection]_vars

\* The session store of two users under the clock and the sweep, each user
\* sending at most MaxSweepEvents events within one window.  The clock
\* advances by one millisecond or by the expiry.
SweepDeltas == {1, USER_DATA_EXPIRY}

NextSweep ==
  \/ \E u \in Users : Burst(u) < MaxSweepEvents /\ Start(u)
  \/ \E u \in Users :
       Burst(u) < MaxSweepEvents /\ \E t \in Texts : TextMessage(u, t)
  \/ \E d \in SweepDeltas : Tick(d)
  \/ Sweep

SpecSweep == Init /\ [][NextSweep]_vars

\* The workflow of one user with the history kept, for at most MaxHistEvents
\* events.
InitHistory ==
  /\ Fresh
  /\ hist = [NoHist EXCEPT !.on = TRUE]
  /\ del = NoDel
  /\ tasks = NoTasks

NextHistory ==
  \/ Burst(1) < MaxHistEvents /\ Start(1)
  \/ Burst(1) < MaxHistEvents /\ \E l \in LangTokens : LangPress(1, l)
  \/ Burst(1) < MaxHistEvents /\ \E t \in Texts : TextMessage(1, t)
  \/ Burst(1) < MaxHistEvents /\ \E x \in ServiceTokens : TogglePress(1, x)
  \/ Burst(1) < MaxHistEvents /\ ConfirmPress(1)
  \/ Burst(1) < MaxHistEvents /\ BackToCarRequestPress(1)
  \/ Burst(1) < MaxHistEvents /\ BackToServicesPress(1)
  \/ Burst(1) < MaxHistEvents /\ \E p \in PaymentTokens : PaymentPress(1, p)
  \/ Burst(1) < MaxHistEvents /\ UnmatchedPress(1)

SpecHistory == InitHistory /\ [][NextHistory]_vars

\* One call of deleteMessages on a list of up to MaxDelLen message ids, with
\* every number of failing attempts on every id.
InitDelete ==
  /\ Fresh
  /\ hist = NoHist
  /\ tasks = NoTasks
  /\ \E n \in 0..MaxDelLen :
       \E fails \in [1..n -> 0..maxRetries] :
         del = [ids |-> [i \in 1..n |-> i], fails |-> fails, next |-> 1,
                log |-> <<>>, pc |-> "called"]

NextDelete ==
  \/ DeleteEnter
  \/ DeleteBatch

SpecDelete == InitDelete /\ [][NextDelete]_vars

\* The same call, with the process scheduled: the event loop resumes a
\* function whose awaited call or timer has completed, and every transport
\* call of the model completes (it returns or throws).
SpecDeleteLive == SpecDelete /\ WF_vars(NextDelete)


\* The intake of one user: the start command, a press of every button of the
\* language prompt or of a button with an id outside the catalog, and free
\* text, for at most MaxIntakeEvents events.
IntakeLangTokens == {o.id : o \in LANGUAGE_OPTIONS} \cup {"xx"}

IntakeTexts == {"bmw", "audi a4"}

NextIntake ==
  \/ Burst(1) < MaxIntakeEvents /\ Start(1)
  \/ Burst(1) < MaxIntakeEvents /\ \E l \in IntakeLangTokens : LangPress(1, l)
  \/ Burst(1) < MaxIntakeEvents /\ \E t \in IntakeTexts : TextMessage(1, t)

SpecIntake == Init /\ [][NextIntake]_vars


(***************************************************************************)
(* Overlapping event tasks of one user.  Every handler is an async         *)
(* function: it runs without interruption up to its next await of a        *)
(* transport call, and while it is suspended there the other tasks of the  *)
(* user run on the same session object.  Nothing in the code serialises    *)
(* the tasks of a user: no lock, no queue, no per-user sequencing is set   *)
(* up on the bot, and the order in which bot.start() (bot.ts 296) feeds    *)
(* the updates to the handlers is the library's, outside the source.  A    *)
(* task is a button press handled by handleCallbackQuery: a language       *)
(* button or a service toggle.                                             *)
(***************************************************************************)
\* the session after the start command and the choice of German: the
\* product-request prompt is pending and keyboard_active is false
AfterLanguage ==
  LET c0 == handleStart(Ctx(NewData(0), <<>>), 0)
  IN  handleLanguageSelection(Ctx(c0.ud, c0.msgs), "de", 0)

\* the session after the product request that followed: the service selector
\* is shown
AfterCarRequest ==
  LET c0 == Ctx(AfterLanguage.ud, AfterLanguage.msgs)
      c1 == RetractPending(c0, [id \in RangeOf(c0.ud.messagesToDelete) |-> 0])
  IN  handleCarRequest(Ctx(c1.ud, c1.msgs), "bmw", 0)

TaskStarts == {AfterLanguage, AfterCarRequest}

\* the counts the window has reached when the tasks arrive; presses of a
\* button outside the catalog while keyboard_active is true are counted and
\* change nothing else
TaskCounts == {MAX_MESSAGES_PER_WINDOW - 2, MAX_MESSAGES_PER_WINDOW - 1}

\* the next message id of the chat
NextIdAfter(c) ==
  1 + (CHOOSE m \in InUse(c) \cup {NoId} :
         \A x \in InUse(c) \cup {NoId} : x <= m)

InitTasks ==
  \E s \in TaskStarts, n \in TaskCounts :
    /\ userDataMap = (1 :> s.ud)
    /\ rateLimitCache = (1 :> [count |-> n, timestamp |-> 0])
    /\ now = 0
    /\ ticks = 0
    /\ msgs = [u \in Users |-> IF u = 1 THEN s.msgs ELSE <<>>]
    /\ faults = 0
    /\ last = NoEvent
    /\ hist = NoHist
    /\ del = NoDel
    /\ keyboardCache = <<>>
    /\ built = NoBuild
    /\ tasks = [NoTasks EXCEPT !.pc = [t \in Tasks |-> "idle"],
                               !.nextId = NextIdAfter(s),
                               !.pushed = RangeOf(s.ud.messagesToDelete),
                               !.base = s.ud.selected_services,
                               !.admits = n]

\* The handler of a press up to its first await: the session it leaves and
\* the call the task is then suspended in.
EnterHandler(ev, ud) ==
  IF ev.kind = "lang"
    THEN IF \A opt \in LANGUAGE_OPTIONS : opt.id # ev.arg
           THEN [ud |-> ud, pc |-> "done"]
           ELSE LET opt == CHOOSE o \in LANGUAGE_OPTIONS : o.id = ev.arg
                IN  [ud |-> [ud EXCEPT !.language = ev.arg,
                                       !.manager = opt.manager,
                                       !.keyboard_active = FALSE],
                     pc |-> "replying"]
    ELSE [ud |-> [ud EXCEPT !.selected_services = Toggle(@, ev.arg)],
          pc |-> IF ud.last_selector_message_id # NoId THEN "editing"
                 ELSE "done"]

\* the record of the tasks once task t has entered its handler
Entered(T, t, ev, pc) ==
  [T EXCEPT !.pc[t] = pc,
            !.flips = IF ev.kind = "toggle" THEN [@ EXCEPT ![ev.arg] = @ + 1]
                      ELSE @]

\* handleCallbackQuery from its entry to its first await.  isRateLimited and
\* initializeUserData are synchronous; a non-empty list is handed to
\* deleteMessages, which cuts its batches at once and then awaits the delete
\* calls; otherwise the handler is entered.
TaskArrive(t, ev) ==
  /\ tasks.pc[t] = "idle"
  /\ LET reset == \/ 1 \notin DOMAIN rateLimitCache
                  \/ now - rateLimitCache[1].timestamp > RATE_LIMIT_WINDOW
         r == isRateLimited(rateLimitCache, 1, now)
         ud == initializeUserData(userDataMap, 1, now)[1]
         T == [tasks EXCEPT !.ev[t] = ev,
                            !.verdict[t] = IF r.limited THEN "rejected"
                                           ELSE "admitted",
                            !.admits = IF r.limited THEN @
                                       ELSE IF reset THEN 1 ELSE @ + 1]
     IN  /\ rateLimitCache' = r.cache
         /\ IF r.limited
              THEN /\ tasks' = [T EXCEPT !.pc[t] = "notice"]
                   /\ UNCHANGED userDataMap
              ELSE IF ~ud.keyboard_active /\ ud.messagesToDelete # <<>>
                THEN /\ tasks' = [T EXCEPT !.pc[t] = "deleting",
                                           !.messageIds[t] = ud.messagesToDelete]
                     /\ userDataMap' = (1 :> ud) @@ userDataMap
                ELSE LET h == EnterHandler(ev, ud)
                     IN  /\ tasks' = Entered(T, t, ev, h.pc)
                         /\ userDataMap' = (1 :> h.ud) @@ userDataMap
  /\ UNCHANGED <<keyboardCache, built>>
  /\ UNCHANGED <<now, ticks, msgs, faults, last, hist, del>>

\* deleteMessages returns to handleCallbackQuery: the delete calls were made
\* on the ids the list held when it was called; the list is replaced by an
\* empty one and the handler is entered
TaskDeleted(t) ==
  /\ tasks.pc[t] = "deleting"
  /\ LET ud == [userDataMap[1] EXCEPT !.messagesToDelete = <<>>]
         h == EnterHandler(tasks.ev[t], ud)
         T == [tasks EXCEPT
                 !.attempted = @ \cup RangeOf(tasks.messageIds[t])]
     IN  /\ tasks' = Entered(T, t, tasks.ev[t], h.pc)
         /\ userDataMap' = [userDataMap EXCEPT ![1] = h.ud]
  /\ UNCHANGED <<keyboardCache, built>>
  /\ UNCHANGED <<rateLimitCache, now, ticks, msgs, faults, last, hist, del>>

\* the ctx.reply of handleLanguageSelection returns or throws
TaskReplied(t) ==
  /\ tasks.pc[t] = "replying"
  /\ \E ok \in BOOLEAN :
       IF ok
         THEN /\ userDataMap' =
                   [userDataMap EXCEPT
                      ![1].messagesToDelete = Append(@, tasks.nextId)]
              /\ tasks' = [tasks EXCEPT !.pc[t] = "done",
                                        !.pushed = @ \cup {tasks.nextId},
                                        !.nextId = @ + 1]
         ELSE /\ tasks' = [tasks EXCEPT !.pc[t] = "notice"]
              /\ UNCHANGED userDataMap
  /\ UNCHANGED <<keyboardCache, built>>
  /\ UNCHANGED <<rateLimitCache, now, ticks, msgs, faults, last, hist, del>>

\* the editMessageText of handleServiceToggle returns, or throws into the
\* catch, which sends a new selector message
TaskEdited(t) ==
  /\ tasks.pc[t] = "editing"
  /\ \E ok \in BOOLEAN :
       tasks' = [tasks EXCEPT !.pc[t] = IF ok THEN "done" ELSE "resending"]
  /\ UNCHANGED <<keyboardCache, built>>
  /\ UNCHANGED <<userDataMap, rateLimitCache, now, ticks, msgs, faults, last,
                 hist, del>>

\* the ctx.reply of the catch returns, and the id of the new selector
\* message is recorded, or it throws
TaskResent(t) ==
  /\ tasks.pc[t] = "resending"
  /\ \E ok \in BOOLEAN :
       IF ok
         THEN /\ userDataMap' =
                   [userDataMap EXCEPT
                      ![1].last_selector_message_id = tasks.nextId]
              /\ msgs' = [msgs EXCEPT ![1] = (tasks.nextId :> "services") @@ @]
              /\ tasks' = [tasks EXCEPT !.pc[t] = "done",
                                        !.replaced = @ \cup {tasks.nextId},
                                        !.nextId = @ + 1]
         ELSE /\ tasks' = [tasks EXCEPT !.pc[t] = "notice"]
              /\ UNCHANGED <<userDataMap, msgs>>
  /\ UNCHANGED <<keyboardCache, built>>
  /\ UNCHANGED <<rateLimitCache, now, ticks, faults, last, hist, del>>

\* the ctx.reply of the rate-limit notice or of the error notice returns
TaskNoticed(t) ==
  /\ tasks.pc[t] = "notice"
  /\ tasks' = [tasks EXCEPT !.pc[t] = "done"]
  /\ UNCHANGED <<keyboardCache, built>>
  /\ UNCHANGED <<userDataMap, rateLimitCache, now, ticks, msgs, faults, last,
                 hist, del>>

NextTasks ==
  \/ \E t \in Tasks, l \in LangTokens : TaskArrive(t, Event("lang", 1, l))
  \/ \E t \in Tasks, x \in ServiceTokens : TaskArrive(t, Event("toggle", 1, x))
  \/ \E t \in Tasks : TaskDeleted(t)
  \/ \E t \in Tasks : TaskReplied(t)
  \/ \E t \in Tasks : TaskEdited(t)
  \/ \E t \in Tasks : TaskResent(t)
  \/ \E t \in Tasks : TaskNoticed(t)
  \/ \E d \in TickDeltas : Tick(d)

SpecTasks == InitTasks /\ [][NextTasks]_vars

\* The service keyboards one session is shown: a toggle press flips the id
\* it carries and re-renders the selector with createServicesKeyboard
\* (part_002 104-123), in the language the session has at that press (a
\* language press between two toggles changes it).  At most MaxBuilds
\* keyboards are built.
KeyboardToggle(serviceId, language) ==
  /\ built.n < MaxBuilds
  /\ LET selected == Toggle(built.selectedServices, serviceId)
         r == createServicesKeyboard(keyboardCache, selected, language)
     IN  /\ keyboardCache' = r.cache
         /\ built' = [selectedServices |-> selected, language |-> language,
                      keyboard |-> r.keyboard, n |-> built.n + 1]
  /\ UNCHANGED <<userDataMap, rateLimitCache, now, ticks, msgs, faults, last,
                 hist, del, tasks>>

KeyboardLanguages == {"en", "de"}

NextKeyboard ==
  \E x \in KeyboardTokens, l \in KeyboardLanguages : KeyboardToggle(x, l)

SpecKeyboard == Init /\ [][NextKeyboard]_vars

(***************************************************************************)
(* Vocabulary of the claims                                                *)
(***************************************************************************)
HasSession(u) == u \in DOMAIN userDataMap

\* the workflow fields of a session: everything but the timestamps
WorkflowFields(ud) ==
  [car_request |-> ud.car_request,
   selected_services |-> ud.selected_services,
   last_selector_message_id |-> ud.last_selector_message_id,
   payment_method |-> ud.payment_method,
   language |-> ud.language,
   manager |-> ud.manager,
   messagesToDelete |-> ud.messagesToDelete,
   keyboard_active |-> ud.keyboard_active,
   workflow_completed |-> ud.workflow_completed]

\* The workflow state of a session.  The code keeps no state field: the state
\* is read off the selector prompt the session shows and off the fields the
\* handlers set when they enter a state.  A session that awaits keyboard
\* input with a language set but shows no selector (the send of the prompt
\* threw) is in none of the states of the workflow.
StateOf(ud, m) ==
  LET shown == IF ud.last_selector_message_id \in DOMAIN m
                 THEN m[ud.last_selector_message_id] ELSE "none"
  IN  IF ud.workflow_completed THEN "Completed"
      ELSE IF ud.keyboard_active /\ shown = "payment" THEN "PaymentSelection"
      ELSE IF ud.keyboard_active /\ shown = "services" THEN "ServiceSelection"
      ELSE IF ud.language = NULL
        THEN (IF ud.keyboard_active THEN "LanguageSelection" ELSE "Init")
      ELSE IF ~ud.keyboard_active THEN "ProductRequest"
      ELSE "NoPrompt"

\* the workflow state user u is in now (a user without a session is in Init)
StateNow(u) == StateOf(PreSession(u), msgs[u])

\* the button presses the prompt of a workflow state offers
PromptTokens(st) ==
  IF st = "LanguageSelection"
    THEN {<<"lang", o.id>> : o \in LANGUAGE_OPTIONS}
  ELSE IF st = "ServiceSelection"
    THEN {<<"toggle", x>> : x \in SERVICE_OPTIONS}
           \cup {<<"confirm_services", "">>, <<"back_to_car_request", "">>}
  ELSE IF st = "PaymentSelection"
    THEN {<<"payment", x>> : x \in PAYMENT_OPTIONS}
           \cup {<<"back_to_services", "">>}
  ELSE {}

ButtonKinds ==
  {"lang", "toggle", "confirm_services", "payment", "back_to_car_request",
   "back_to_services", "unmatched"}

\* this step handles a button press of u
ButtonStep(u) == last'.ev.user = u /\ last'.ev.kind \in ButtonKinds

\* the selector messages that exist in the chat of u
SelectorsShown(u) == {id \in DOMAIN msgs[u] : msgs[u][id] \in SelectorKinds}

\* the calls of a log that match an operation and an outcome
Calls(log, op, ok) == {i \in DOMAIN log : log[i].op = op /\ log[i].ok = ok}

(***************************************************************************)
(* C1  Rate limiting, ceiling 30 per 60 s window.  An event of a user      *)
(* without a window, or arriving more than 60 s after the window start, is *)
(* admitted and restarts the window at count 1; within the window an event *)
(* is admitted, and counted, while fewer than 30 were counted, so the      *)
(* first 30 are admitted; the 31st is rejected and changes nothing.        *)
(***************************************************************************)
DispatchKinds == (ButtonKinds \ {"unmatched"}) \cup {"start", "text"}

C1_RateLimitWindow ==
  [][\A u \in Users :
       (last'.ev.user = u /\ last'.ev.kind \in DispatchKinds) =>
         IF u \notin DOMAIN rateLimitCache
              \/ now - rateLimitCache[u].timestamp > 60000
           THEN /\ last'.admitted
                /\ rateLimitCache'[u] = [count |-> 1, timestamp |-> now]
         ELSE IF rateLimitCache[u].count < 30
           THEN /\ last'.admitted
                /\ rateLimitCache'[u] =
                     [count |-> rateLimitCache[u].count + 1,
                      timestamp |-> rateLimitCache[u].timestamp]
         ELSE /\ ~last'.admitted
              /\ rateLimitCache'[u] = rateLimitCache[u]]_vars

\* the 31st event within a window has been rejected, at the very end of the
\* window
C1_Witness ==
  /\ last.ev.kind = "text" /\ ~last.admitted
  /\ rateLimitCache[1].count = 30
  /\ now - rateLimitCache[1].timestamp = 60000

(***************************************************************************)
(* C2  workflowCompleted is monotonic.                                     *)
(* As claimed: once true it is true in every later state of the session,   *)
(* whatever the event.                                                     *)
(***************************************************************************)
C2_Original ==
  [][\A u \in Users :
       (HasSession(u) /\ userDataMap[u].workflow_completed
          /\ u \in DOMAIN userDataMap')
         => userDataMap'[u].workflow_completed]_vars

\* C2 as amended: once true, workflowCompleted stays true under every button
\* press and every free-text event; only a start command, which resets the
\* session, sets it back to false.
C2_Amended ==
  [][\A u \in Users :
       (HasSession(u) /\ userDataMap[u].workflow_completed
          /\ u \in DOMAIN userDataMap' /\ last'.ev.kind # "start")
         => userDataMap'[u].workflow_completed]_vars

\* a completed session has handled a free-text event and is still completed
C2_Witness ==
  /\ HasSession(1) /\ userDataMap[1].workflow_completed
  /\ userDataMap[1].language # NULL /\ userDataMap[1].car_request # ""
  /\ userDataMap[1].selected_services # {}
  /\ last.ev.kind = "text" /\ last.admitted
  /\ \E i \in DOMAIN last.log : last.log[i].kind = "askManagerMessage"


(***************************************************************************)
(* C3  A button press whose token does not belong to the prompt of the     *)
(* session's current workflow state (a stale button, or a malformed token) *)
(* is ignored: no workflow field of the session changes and no error is    *)
(* raised.  (Stated for the presses during which no transport call fails.) *)
(***************************************************************************)
C3_StaleButtonIgnored ==
  [][\A u \in Users :
       (ButtonStep(u)
          /\ <<last'.ev.kind, last'.ev.arg>> \notin PromptTokens(StateNow(u))
          /\ Failed(last'.log) = 0)
         => /\ ~last'.threw
            /\ HasSession(u) =>
                 WorkflowFields(userDataMap'[u]) = WorkflowFields(userDataMap[u])
            /\ (~HasSession(u) /\ u \in DOMAIN userDataMap') =>
                 WorkflowFields(userDataMap'[u]) = WorkflowFields(NewData(now))
     ]_vars

(***************************************************************************)
(* C4  If a transport call throws while an event is handled, so that the   *)
(* exception reaches the outermost catch, every workflow field of the      *)
(* session has the value it had before the event.                          *)
(***************************************************************************)
C4_ThrowLeavesSession ==
  [][\A u \in Users :
       (last'.ev.user = u /\ last'.threw)
         => WorkflowFields(userDataMap'[u]) = WorkflowFields(PreSession(u))
     ]_vars

(***************************************************************************)
(* C5  In every state (the handlers run one at a time, so every state is   *)
(* quiescent) activeSelectorMessageId is non-null iff the session is in    *)
(* ServiceSelection or PaymentSelection.                                   *)
(***************************************************************************)
C5_SelectorIffSelecting ==
  \A u \in DOMAIN userDataMap :
    (userDataMap[u].last_selector_message_id # NoId)
      <=> (StateNow(u) \in {"ServiceSelection", "PaymentSelection"})

(***************************************************************************)
(* C6  At most one selector message that was sent and not successfully     *)
(* deleted exists for a session, and when one exists its id is             *)
(* activeSelectorMessageId.                                                *)
(***************************************************************************)
C6_OneSelector ==
  \A u \in Users :
    /\ Cardinality(SelectorsShown(u)) <= 1
    /\ SelectorsShown(u) # {} =>
         /\ HasSession(u)
         /\ SelectorsShown(u) = {userDataMap[u].last_selector_message_id}

(***************************************************************************)
(* C7  A session whose language is unset has collected nothing:            *)
(* productRequest is empty, selectedServices is empty, paymentMethod is    *)
(* unset, activeSelectorMessageId is null and workflowCompleted is false.  *)
(***************************************************************************)
C7_NoLanguageNothingCollected ==
  \A u \in DOMAIN userDataMap :
    userDataMap[u].language = NULL =>
      /\ userDataMap[u].car_request = ""
      /\ userDataMap[u].selected_services = {}
      /\ userDataMap[u].payment_method = NULL
      /\ userDataMap[u].last_selector_message_id = NoId
      /\ ~userDataMap[u].workflow_completed

(***************************************************************************)
(* C8  A toggle event received in a state other than ServiceSelection      *)
(* leaves selectedServices unchanged.                                      *)
(***************************************************************************)
C8_ToggleOnlyInServiceSelection ==
  [][\A u \in Users :
       (last'.ev.user = u /\ last'.ev.kind = "toggle"
          /\ StateNow(u) # "ServiceSelection")
         => userDataMap'[u].selected_services = PreSession(u).selected_services
     ]_vars

(***************************************************************************)
(* C9  After a service toggle that returns without throwing,               *)
(* activeSelectorMessageId is non-null and names a message carrying the    *)
(* service keyboard: the unchanged old id if the edit succeeded, the id of *)
(* the newly sent message if it failed.                                    *)
(* As claimed: also when activeSelectorMessageId was null before.          *)
(***************************************************************************)
\* what a returned toggle of u leaves behind
ToggleLeavesSelector(u) ==
  LET sel == userDataMap'[u].last_selector_message_id
      log == last'.log
  IN  /\ sel # NoId
      /\ sel \in DOMAIN msgs'[u] /\ msgs'[u][sel] = "services"
      /\ Calls(log, "edit", TRUE) # {} =>
           sel = PreSession(u).last_selector_message_id
      /\ Calls(log, "edit", TRUE) = {} =>
           /\ sel # PreSession(u).last_selector_message_id
           /\ \E i \in Calls(log, "send", TRUE) :
                log[i].kind = "services" /\ log[i].id = sel

ToggleReturned(u) ==
  /\ last'.ev.user = u /\ last'.ev.kind = "toggle"
  /\ last'.admitted /\ ~last'.threw

C9_Original ==
  [][\A u \in Users : ToggleReturned(u) => ToggleLeavesSelector(u)]_vars

\* C9 as amended: the same, for a toggle that finds activeSelectorMessageId
\* non-null; a toggle that finds it null leaves it null and sends nothing.
C9_Amended ==
  [][\A u \in Users :
       ToggleReturned(u) =>
         IF PreSession(u).last_selector_message_id # NoId
           THEN ToggleLeavesSelector(u)
           ELSE /\ userDataMap'[u].last_selector_message_id = NoId
                /\ Calls(last'.log, "send", TRUE) = {}
                /\ Calls(last'.log, "send", FALSE) = {}]_vars

\* a toggle whose edit failed has returned with the replacement message as
\* the selector
C9_Witness ==
  /\ last.ev.kind = "toggle" /\ last.admitted /\ ~last.threw
  /\ Calls(last.log, "edit", FALSE) # {}
  /\ HasSession(1)
  /\ \E i \in Calls(last.log, "send", TRUE) :
       /\ last.log[i].id = userDataMap[1].last_selector_message_id
       /\ msgs[1][last.log[i].id] = "services"

(***************************************************************************)
(* C10  A sweep removes exactly the sessions whose last activity is older  *)
(* than 7 days, together with their rate-limit windows, and leaves every   *)
(* other session and every other window unchanged.                         *)
(***************************************************************************)
C10_SweepExact ==
  [][last'.ev.kind = "sweep" =>
       LET old == {u \in DOMAIN userDataMap :
                     now - userDataMap[u].lastActivity > 604800000}
       IN  /\ DOMAIN userDataMap' = DOMAIN userDataMap \ old
           /\ DOMAIN rateLimitCache' = DOMAIN rateLimitCache \ old
           /\ \A u \in DOMAIN userDataMap' : userDataMap'[u] = userDataMap[u]
           /\ \A u \in DOMAIN rateLimitCache' :
                rateLimitCache'[u] = rateLimitCache[u]]_vars

\* a sweep has removed one session with its window and kept another, whose
\* last activity is exactly 7 days old
C10_Witness ==
  /\ last.ev.kind = "sweep"
  /\ last.log # <<>> /\ last.log[1].id = 1
  /\ \E u \in Users :
       /\ DOMAIN userDataMap = {u} /\ DOMAIN rateLimitCache = {u}
       /\ now - userDataMap[u].lastActivity = 604800000

(***************************************************************************)
(* C11  Batched deletion is best-effort: for every list of message ids and *)
(* every pattern of failing delete calls, deleteMessages returns, attempts *)
(* every id of the list at least once, makes no attempt on an id after its *)
(* first successful delete, and gives every id its attempts (up to         *)
(* maxRetries, all of them if none succeeds) whatever happened to the      *)
(* other ids of its own and of earlier batches.                            *)
(***************************************************************************)
\* the attempts of a log that were made on a message id
AttemptsOn(log, id) == {k \in DOMAIN log : log[k].id = id}

C11_BestEffortDeletion ==
  /\ del.pc \in {"called", "batches"} => ENABLED NextDelete
  /\ del.pc = "returned" =>
       \A i \in DOMAIN del.ids :
         LET on == AttemptsOn(del.log, del.ids[i])
             n == del.fails[del.ids[i]]
         IN  /\ on # {}
             /\ \A k \in on, l \in on : k < l => ~del.log[k].ok
             /\ Cardinality(on) = IF n < maxRetries THEN n + 1 ELSE maxRetries
             /\ (\E k \in on : del.log[k].ok) <=> n < maxRetries

\* a call with two batches has returned: every attempt on an id of the first
\* batch failed, and an id of the second batch was deleted on its third
\* attempt
C11_Witness ==
  /\ del.pc = "returned" /\ Len(del.ids) > batchSize
  /\ del.fails[1] = maxRetries
  /\ Cardinality(AttemptsOn(del.log, 1)) = maxRetries
  /\ del.fails[batchSize + 1] = maxRetries - 1
  /\ \E k \in AttemptsOn(del.log, batchSize + 1) : del.log[k].ok

(***************************************************************************)
(* C12  Whenever workflowCompleted is true, a free-text event results in   *)
(* exactly one 'ask the operator' message being sent, no delete call, and  *)
(* no change to any session field other than the activity timestamp.       *)
(* (Stated for the events during which no transport call fails.)           *)
(***************************************************************************)
\* this step handles an admitted free-text event of u, who has a session
TextStep(u) ==
  /\ last'.ev.user = u /\ last'.ev.kind = "text" /\ last'.admitted
  /\ HasSession(u)

\* the calls of a log that match an operation, whatever their outcome
CallsOf(log, op) == {i \in DOMAIN log : log[i].op = op}

C12_CompletedTextAsksOperator ==
  [][\A u \in Users :
       (TextStep(u) /\ userDataMap[u].workflow_completed
          /\ Failed(last'.log) = 0)
         => /\ Len(last'.log) = 1
            /\ last'.log[1].op = "send"
            /\ last'.log[1].kind = "askManagerMessage"
            /\ CallsOf(last'.log, "delete") = {}
            /\ WorkflowFields(userDataMap'[u]) = WorkflowFields(userDataMap[u])
     ]_vars

Completes(u) ==
  /\ last'.ev.user = u /\ last'.admitted
  /\ ~PreSession(u).workflow_completed
  /\ userDataMap'[u].workflow_completed

C14_HandoffOnce ==
  [][/\ hist'.notified <= 1
     /\ \A u \in Users :
          Completes(u) =>
            /\ Cardinality(CallsOf(last'.log, "notify")) = 1
            /\ \A i \in CallsOf(last'.log, "notify") :
                 /\ \E j \in 1..(i - 1) :
                      last'.log[j].kind = "summary" /\ last'.log[j].ok
                 /\ \A k \in DOMAIN last'.log :
                      last'.log[k].kind = "managerInfo" => i < k]_vars

(***************************************************************************)
(* C15  If the operator-handoff notification fails (and no other call of   *)
(* the event does), it is not retried, no error notice is sent to the      *)
(* user, and the payment-chosen transition finishes exactly as when the    *)
(* notification succeeds: the operator-connect prompt and the closing note *)
(* are sent and tracked for retraction, and workflowCompleted becomes      *)
(* true.                                                                   *)
(***************************************************************************)
\* the sends of a kind that succeeded
Sent(log, kind) ==
  {i \in DOMAIN log : log[i].op = "send" /\ log[i].kind = kind /\ log[i].ok}

\* this step handles a payment press of u during which the notification,
\* and nothing else, failed
HandoffFailed(u) ==
  /\ last'.ev.user = u /\ last'.ev.kind = "payment" /\ last'.admitted
  /\ Calls(last'.log, "notify", FALSE) # {}
  /\ Failed(last'.log) = 1

C15_HandoffFailureIsSilent ==
  [][\A u \in Users :
       HandoffFailed(u) =>
         /\ Cardinality(CallsOf(last'.log, "notify")) = 1
         /\ ~last'.threw
         /\ \A i \in DOMAIN last'.log : last'.log[i].kind # "errorNotice"
         /\ userDataMap'[u].workflow_completed
         /\ \A kind \in {"managerInfo", "askManagerMessage"} :
              /\ Cardinality(Sent(last'.log, kind)) = 1
              /\ \A i \in Sent(last'.log, kind) :
                   last'.log[i].id \in RangeOf(userDataMap'[u].messagesToDelete)
         /\ \E c \in Retracted(u) :
              \E delOk \in SelectorOutcomes(c) :
                LET good == handlePaymentSelection(c, last'.ev.arg, delOk, 0, TRUE)
                IN  /\ ~good.threw
                    /\ userDataMap'[u] = good.ud
                    /\ msgs'[u] = good.msgs
                    /\ Len(good.log) = Len(last'.log)
                    /\ \A i \in DOMAIN good.log :
                         good.log[i].op # "notify" => good.log[i] = last'.log[i]
     ]_vars

\* a session in PaymentSelection has completed although the notification
\* failed
C15_Witness ==
  /\ last.ev.kind = "payment" /\ last.admitted /\ ~last.threw
  /\ Calls(last.log, "notify", FALSE) # {}
  /\ Calls(last.log, "delete", TRUE) # {}
  /\ HasSession(1) /\ userDataMap[1].workflow_completed
  /\ userDataMap[1].language # NULL /\ userDataMap[1].selected_services # {}
  /\ Len(userDataMap[1].messagesToDelete) >= 3

(***************************************************************************)
(* C16  Toggling a service id X twice in succession, with no other event   *)
(* in between, yields the selectedServices the session had before the      *)
(* first toggle, whatever the outcome of the edit calls.                   *)
(***************************************************************************)
\* the last two events of u were admitted toggles of the same service id
ToggledTwice(u) ==
  /\ last.ev.kind = "toggle" /\ last.ev.user = u /\ last.admitted
  /\ hist.prev.ev = last.ev /\ hist.prev.admitted

C16_DoubleToggle ==
  \A u \in Users :
    ToggledTwice(u) => userDataMap[u].selected_services = hist.before2

\* a selected service was toggled off and on again, the second edit failing
C16_Witness ==
  /\ ToggledTwice(1)
  /\ hist.before2 # {} /\ last.ev.arg \in hist.before2
  /\ hist.before # hist.before2
  /\ Calls(last.log, "edit", FALSE) # {}
  /\ userDataMap[1].selected_services = hist.before2

(***************************************************************************)
(* C17  A confirm event in ServiceSelection with selectedServices empty    *)
(* sends exactly one warning message, makes no delete or edit call, and    *)
(* leaves the workflow state and every session field unchanged.            *)
(***************************************************************************)
\* this step handles an admitted press of kind `kind` by u, whose session is
\* in workflow state st
PressIn(u, kind, st) ==
  /\ last'.ev.user = u /\ last'.ev.kind = kind /\ last'.admitted
  /\ StateNow(u) = st

C18_BackFromServicesClears ==
  [][\A u \in Users :
       PressIn(u, "back_to_car_request", "ServiceSelection")
         => /\ userDataMap'[u].selected_services = {}
            /\ userDataMap'[u].payment_method = NULL
            /\ ~userDataMap'[u].keyboard_active]_vars

\* a back event has cleared a non-empty selection although the delete of
\* the service keyboard failed
C18_Witness ==
  /\ last.ev.kind = "back_to_car_request" /\ last.admitted
  /\ hist.before # {}
  /\ Calls(last.log, "delete", FALSE) # {}
  /\ HasSession(1) /\ userDataMap[1].selected_services = {}
  /\ userDataMap[1].last_selector_message_id # NoId
  /\ ~userDataMap[1].keyboard_active

(***************************************************************************)
(* C19  A back event from PaymentSelection clears paymentMethod only:      *)
(* selectedServices, productRequest, language and assignedOperator keep    *)
(* their values, awaitingKeyboardInput stays true, and (unless its send    *)
(* throws) the newly sent service-selection prompt becomes the active      *)
(* selector.                                                               *)
(***************************************************************************)
C19_BackFromPaymentKeeps ==
  [][\A u \in Users :
       PressIn(u, "back_to_services", "PaymentSelection")
         => /\ [WorkflowFields(userDataMap'[u]) EXCEPT
                  !.last_selector_message_id = NoId]
                 = [WorkflowFields(userDataMap[u]) EXCEPT
                      !.payment_method = NULL,
                      !.last_selector_message_id = NoId]
            /\ userDataMap'[u].keyboard_active
            /\ ~last'.threw =>
                 /\ Cardinality(Sent(last'.log, "services")) = 1
                 /\ \A i \in Sent(last'.log, "services") :
                      /\ userDataMap'[u].last_selector_message_id = last'.log[i].id
                      /\ msgs'[u][last'.log[i].id] = "services"]_vars

\* a session that had selected services and went on to the payment prompt
\* is back on a new service keyboard with its selection
C19_Witness ==
  /\ last.ev.kind = "back_to_services" /\ last.admitted /\ ~last.threw
  /\ Calls(last.log, "delete", TRUE) # {}
  /\ HasSession(1) /\ userDataMap[1].selected_services # {}
  /\ userDataMap[1].language # NULL /\ userDataMap[1].car_request # ""
  /\ userDataMap[1].payment_method = NULL
  /\ StateOf(userDataMap[1], msgs[1]) = "ServiceSelection"
  /\ \E i \in Sent(last.log, "services") :
       last.log[i].id = userDataMap[1].last_selector_message_id

(***************************************************************************)
(* C20  A confirm event in ServiceSelection with selectedServices          *)
(* non-empty issues a delete for the current active selector before the    *)
(* payment prompt is sent, then sets awaitingKeyboardInput = true and      *)
(* (unless the send throws) activeSelectorMessageId to the id of the new   *)
(* payment prompt, leaving selectedServices unchanged.                     *)
(***************************************************************************)
C20_ConfirmReplacesSelector ==
  [][\A u \in Users :
       (PressIn(u, "confirm_services", "ServiceSelection")
          /\ userDataMap[u].selected_services # {})
         => /\ last'.log[1].op = "delete"
            /\ last'.log[1].id = userDataMap[u].last_selector_message_id
            /\ Cardinality(CallsOf(last'.log, "delete")) = 1
            /\ last'.log[2].op = "send" /\ last'.log[2].kind = "payment"
            /\ userDataMap'[u].keyboard_active
            /\ userDataMap'[u].selected_services
                 = userDataMap[u].selected_services
            /\ last'.threw <=> ~last'.log[2].ok
            /\ ~last'.threw =>
                 /\ userDataMap'[u].last_selector_message_id = last'.log[2].id
                 /\ msgs'[u][last'.log[2].id] = "payment"]_vars

\* the service keyboard was deleted and the payment prompt is the selector
C20_Witness ==
  /\ last.ev.kind = "confirm_services" /\ last.admitted /\ ~last.threw
  /\ Calls(last.log, "delete", TRUE) # {}
  /\ HasSession(1) /\ userDataMap[1].selected_services # {}
  /\ userDataMap[1].language # NULL
  /\ StateOf(userDataMap[1], msgs[1]) = "PaymentSelection"
  /\ SelectorsShown(1) = {userDataMap[1].last_selector_message_id}

(***************************************************************************)
(* C21  A start command whose sends all succeed leaves the session,        *)
(* whatever its prior content, with productRequest empty, selectedServices *)
(* empty, paymentMethod, language and assignedOperator unset,              *)
(* activeSelectorMessageId null, workflowCompleted false,                  *)
(* awaitingKeyboardInput true and pendingRetractionIds holding exactly the *)
(* id of the language prompt; the two welcome messages are sent before the *)
(* language prompt.                                                        *)
(***************************************************************************)
C21_StartResets ==
  [][\A u \in Users :
       (last'.ev.user = u /\ last'.ev.kind = "start" /\ last'.admitted
          /\ ~last'.threw)
         => /\ Len(last'.log) = 3
            /\ \A i \in 1..3 : last'.log[i].op = "send" /\ last'.log[i].ok
            /\ last'.log[1].kind = "welcome_en"
            /\ last'.log[2].kind = "welcome_ru"
            /\ last'.log[3].kind = "language"
            /\ WorkflowFields(userDataMap'[u]) =
                 [car_request |-> "",
                  selected_services |-> {},
                  last_selector_message_id |-> NoId,
                  payment_method |-> NULL,
                  language |-> NULL,
                  manager |-> NULL,
                  messagesToDelete |-> <<last'.log[3].id>>,
                  keyboard_active |-> TRUE,
                  workflow_completed |-> FALSE]]_vars

\* a start command has reset a session that had selected services
C21_Witness ==
  /\ last.ev.kind = "start" /\ last.admitted /\ ~last.threw
  /\ hist.before # {}
  /\ HasSession(1) /\ userDataMap[1].selected_services = {}
  /\ userDataMap[1].keyboard_active
  /\ Len(userDataMap[1].messagesToDelete) = 1

(***************************************************************************)
(* C22  Language choice.  An admitted press of the button of a catalog     *)
(* language L sets language = L, sets the operator to the one the catalog  *)
(* gives L (Jacob for en, de, es; Vladislav for ru, uk), sets              *)
(* keyboard_active = false and sends the product-request prompt.  As       *)
(* stated, a press with an id outside the catalog changes no session field *)
(* and sends nothing (C22_Original).  As the code has it, the handler      *)
(* changes nothing and sends nothing for such an id, but the dispatcher    *)
(* has by then retracted the pending messages when keyboard_active was     *)
(* false: a delete is attempted for each and messagesToDelete is emptied   *)
(* (C22_Amended).                                                          *)
(***************************************************************************)
\* this step handles an admitted press of a language button of u
LangStep(u) ==
  last'.ev.user = u /\ last'.ev.kind = "lang" /\ last'.admitted

\* the operator the catalog of the claim gives a language id
OperatorOf(languageId) ==
  IF languageId \in {"en", "de", "es"} THEN "Jacob" ELSE "Vladislav"

\* the effect of choosing a catalog language
LanguageChosen(u) ==
  /\ userDataMap'[u].language = last'.ev.arg
  /\ userDataMap'[u].manager = OperatorOf(last'.ev.arg)
  /\ userDataMap'[u].keyboard_active = FALSE
  /\ Cardinality({i \in DOMAIN last'.log :
                    last'.log[i].op = "send" /\ last'.log[i].kind = "carRequest"}) = 1
  /\ ~last'.threw =>
       /\ Sent(last'.log, "carRequest") # {}
       /\ LET list == userDataMap'[u].messagesToDelete
          IN  list # <<>> /\ list[Len(list)] = last'.log[Len(last'.log)].id

C23_TextStoredOnlyWhenAwaited ==
  [][\A u \in Users :
       (TextStep(u) /\ last'.admitted) =>
         LET pre == PreSession(u)
             sends == {i \in DOMAIN last'.log :
                         last'.log[i].op = "send" /\ last'.log[i].kind = "services"}
         IN  /\ (pre.language # NULL /\ ~pre.keyboard_active
                   /\ ~pre.workflow_completed) =>
                  /\ userDataMap'[u].car_request = last'.ev.arg
                  /\ userDataMap'[u].keyboard_active
                  /\ Cardinality(sends) = 1
                  /\ ~last'.threw =>
                       \E i \in sends :
                         /\ last'.log[i].ok
                         /\ userDataMap'[u].last_selector_message_id = last'.log[i].id
                         /\ last'.log[i].id \in DOMAIN msgs'[u]
                         /\ msgs'[u][last'.log[i].id] = "services"
             /\ pre.keyboard_active =>
                  /\ userDataMap'[u].car_request = pre.car_request
                  /\ sends = {}]_vars

\* the second text of the intake was stored and the service selector it
\* brought is the active one
C23_Witness ==
  /\ last.ev.kind = "text" /\ last.ev.arg = "audi a4" /\ last.admitted
  /\ ~last.threw
  /\ HasSession(1)
  /\ userDataMap[1].car_request = "audi a4"
  /\ userDataMap[1].keyboard_active
  /\ Sent(last.log, "services") # {}
  /\ userDataMap[1].last_selector_message_id \in DOMAIN msgs[1]

(***************************************************************************)
(* C24  Rejected events.  An event the rate limiter rejects sends exactly  *)
(* one notice, runs no workflow handler and no delete call, and leaves the *)
(* session store (the user's session with its lastActivity, and the        *)
(* absence of one) and the rate-limit window (count and start) unchanged.  *)
(***************************************************************************)
\* this step handles an event of u that the rate limiter rejected
RejectedStep(u) ==
  last'.ev.user = u /\ last'.ev.kind \in DispatchKinds /\ ~last'.admitted

C24_RejectedChangesNothing ==
  [][\A u \in Users :
       RejectedStep(u) =>
         /\ Len(last'.log) = 1
         /\ last'.log[1].op = "send" /\ last'.log[1].kind = "rateLimitNotice"
         /\ ~last'.threw
         /\ userDataMap' = userDataMap
         /\ rateLimitCache' = rateLimitCache
         /\ msgs' = msgs]_vars

\* a button press was rejected at the ceiling, with pending messages that an
\* admitted press would have retracted
C24_Witness ==
  /\ last.ev.kind = "lang" /\ ~last.admitted
  /\ Len(last.log) = 1 /\ last.log[1].kind = "rateLimitNotice"
  /\ rateLimitCache[1].count = MAX_MESSAGES_PER_WINDOW
  /\ HasSession(1)
  /\ ~userDataMap[1].keyboard_active
  /\ userDataMap[1].messagesToDelete # <<>>

(***************************************************************************)
(* C28  Retraction before the handler.  An admitted button press or free   *)
(* text that finds keyboard_active false first issues a delete for every   *)
(* id of messagesToDelete, in list order, and empties the list; every      *)
(* message the event sends comes after these deletes, and the list holds   *)
(* afterwards only ids of messages this event sent.  One that finds        *)
(* keyboard_active true deletes no pending id, and the old list is a       *)
(* prefix of the new one.                                                  *)
(***************************************************************************)
\* this step handles an admitted button press or free text of u
PressOrTextStep(u) ==
  /\ last'.ev.user = u /\ last'.admitted
  /\ last'.ev.kind \in DispatchKinds \ {"start"}

C28_RetractBeforeHandler ==
  [][\A u \in Users :
       PressOrTextStep(u) =>
         LET pre == PreSession(u)
             pending == pre.messagesToDelete
             list == userDataMap'[u].messagesToDelete
             log == last'.log
         IN  IF ~pre.keyboard_active
               THEN /\ Len(log) >= Len(pending)
                    /\ \A i \in DOMAIN pending :
                         log[i].op = "delete" /\ log[i].id = pending[i]
                    /\ \A i \in DOMAIN log :
                         log[i].op = "send" => i > Len(pending)
                    /\ \A k \in DOMAIN list :
                         \E i \in DOMAIN log :
                           /\ i > Len(pending)
                           /\ log[i].op = "send" /\ log[i].ok
                           /\ log[i].id = list[k]
               ELSE /\ \A i \in DOMAIN log :
                         log[i].op = "delete" => log[i].id \notin RangeOf(pending)
                    /\ Len(list) >= Len(pending)
                    /\ SubSeq(list, 1, Len(pending)) = pending]_vars

\* a second language press retracted the language prompt and the first
\* product-request prompt, then sent and tracked a new product-request prompt
C28_Witness ==
  /\ last.ev.kind = "lang" /\ last.admitted /\ ~last.threw
  /\ Len(last.log) = 3
  /\ last.log[1].op = "delete" /\ last.log[2].op = "delete"
  /\ last.log[3].op = "send" /\ last.log[3].kind = "carRequest"
  /\ HasSession(1)
  /\ userDataMap[1].messagesToDelete = <<last.log[3].id>>

(***************************************************************************)
(* C29  No id is dropped without a delete.  A message id that an admitted  *)
(* event removes from messagesToDelete has had a delete call issued for it *)
(* by that event; this holds for every event, the start command included.  *)
(***************************************************************************)
C29_NoDropWithoutDelete ==
  [][\A u \in Users :
       (last'.ev.user = u /\ last'.ev.kind \in DispatchKinds /\ last'.admitted) =>
         \A id \in RangeOf(PreSession(u).messagesToDelete)
                     \ RangeOf(userDataMap'[u].messagesToDelete) :
           \E i \in DOMAIN last'.log :
             last'.log[i].op = "delete" /\ last'.log[i].id = id]_vars

(***************************************************************************)
(* C30  Batch order and size.  deleteMessages cuts the list, in list       *)
(* order, into batches of at most batchSize = 5 ids.  No delete call on an *)
(* id of a later batch is issued before every id of every earlier batch    *)
(* was deleted or has had its maxRetries attempts; exactly one pause of    *)
(* 1000 ms lies between the calls of a batch and those of the next; no     *)
(* pause follows the last batch.                                           *)
(***************************************************************************)
\* the number of the batch the i-th id of the list belongs to, from 0
BatchOf(i) == (i - 1) \div 5

\* the 1-second pauses of a log
BatchPauses(log) ==
  {k \in DOMAIN log : log[k].op = "setTimeout" /\ log[k].ms = 1000}

\* the i-th id of the list is finished before position p of the log
FinishedBefore(i, p) ==
  LET on == {k \in AttemptsOn(del.log, del.ids[i]) : k < p}
  IN  /\ (\E k \in on : del.log[k].ok) \/ Cardinality(on) = maxRetries
      /\ \A k \in AttemptsOn(del.log, del.ids[i]) : k < p

C30_BatchOrder ==
  /\ \A i \in DOMAIN del.ids, j \in DOMAIN del.ids :
       BatchOf(i) < BatchOf(j) =>
         \A p \in AttemptsOn(del.log, del.ids[j]) :
           /\ FinishedBefore(i, p)
           /\ Cardinality({w \in BatchPauses(del.log) :
                             /\ w < p
                             /\ \A k \in AttemptsOn(del.log, del.ids[i]) : k < w})
                = BatchOf(j) - BatchOf(i)
  /\ \A i \in DOMAIN del.ids, j \in DOMAIN del.ids :
       BatchOf(i) = BatchOf(j) =>
         \A p \in AttemptsOn(del.log, del.ids[i]),
            q \in AttemptsOn(del.log, del.ids[j]) :
           \A w \in BatchPauses(del.log) : ~(p < w /\ w < q)
  /\ del.pc = "returned" =>
       /\ \A w \in BatchPauses(del.log) :
            \E p \in DOMAIN del.log :
              p > w /\ del.log[p].op = "deleteMessage"
       /\ Cardinality(BatchPauses(del.log))
            = IF del.ids = <<>> THEN 0 ELSE BatchOf(Len(del.ids))

\* a call on six ids has returned: the sixth id was attempted after the five
\* of the first batch, one of which used up its attempts, and after the one
\* pause of the call
C30_Witness ==
  /\ del.pc = "returned" /\ Len(del.ids) = 6
  /\ del.fails[5] = maxRetries
  /\ Cardinality(BatchPauses(del.log)) = 1
  /\ \E w \in BatchPauses(del.log) :
       /\ \A i \in 1..5 : \A k \in AttemptsOn(del.log, i) : k < w
       /\ \A k \in AttemptsOn(del.log, 6) : k > w
  /\ del.log[Len(del.log)].op = "deleteMessage"

(***************************************************************************)
(* C25  Admission under overlapping tasks.  In every interleaving of the   *)
(* tasks of a user the count of the window never exceeds 30, it equals the *)
(* number of events admitted since the window was last restarted (no       *)
(* admission is lost), so at most 30 events are admitted between two       *)
(* restarts, and an event is rejected only at a count of 30.               *)
(***************************************************************************)
C25_AdmissionAtomic ==
  /\ Burst(1) <= 30
  /\ Burst(1) = tasks.admits
  /\ tasks.admits <= 30
  /\ \A t \in Tasks :
       (tasks.verdict[t] = "rejected" /\ ticks = 0) => Burst(1) = 30

\* two tasks arrived at a count of 29 while the first was still suspended:
\* one was admitted, which filled the window, and the other was rejected
C25_Witness ==
  /\ Burst(1) = 30
  /\ \E t \in Tasks, r \in Tasks :
       /\ tasks.verdict[t] = "admitted" /\ tasks.pc[t] \notin {"idle", "done"}
       /\ tasks.verdict[r] = "rejected"

(***************************************************************************)
(* C26  No lost update of messagesToDelete under overlapping tasks.  Every *)
(* message id a task has appended to the list is still in the list, or a   *)
(* delete call has been issued for it; in particular an id appended by one *)
(* task while another is suspended in deleteMessages survives the other    *)
(* task's clearing of the list.                                            *)
(***************************************************************************)
C26_NoLostRetraction ==
  \A id \in tasks.pushed :
    \/ id \in RangeOf(PreSession(1).messagesToDelete)
    \/ id \in tasks.attempted

(***************************************************************************)
(* C27  No lost toggle under overlapping tasks.  After all the tasks of a  *)
(* session that showed the service selector have finished, a service is    *)
(* selected iff it was selected at the start and toggled an even number of *)
(* times or was not and toggled an odd number of times; and exactly one    *)
(* selector message is the active one: of the selector messages the failed *)
(* edits were replaced by, at most one exists.                             *)
(***************************************************************************)
AllDone == \A t \in Tasks : tasks.pc[t] = "done"

BackoffWaits(log) ==
  {k \in DOMAIN log : log[k].op = "setTimeout" /\ k \notin BatchPauses(log)}

\* the delete calls of a log
DeleteCalls(log) == {k \in DOMAIN log : log[k].op = "deleteMessage"}

BoundedRetries ==
  /\ \A i \in DOMAIN del.ids : Cardinality(AttemptsOn(del.log, del.ids[i])) <= 3
  /\ \A k \in BackoffWaits(del.log) :
       /\ 1 < k /\ k < Len(del.log)
       /\ del.log[k - 1].op = "deleteMessage" /\ ~del.log[k - 1].ok
       /\ del.log[k + 1].op = "deleteMessage"
       /\ del.log[k + 1].id = del.log[k - 1].id
       /\ del.log[k].ms
            = 1000 * 2^Cardinality({j \in AttemptsOn(del.log, del.log[k - 1].id) :
                                      j < k})
  /\ \A k \in DeleteCalls(del.log) :
       (~del.log[k].ok
          /\ Cardinality({j \in AttemptsOn(del.log, del.log[k].id) : j <= k}) = 3)
         => (k = Len(del.log) \/ del.log[k + 1].op = "deleteMessage"
               \/ k + 1 \in BatchPauses(del.log))
  /\ Cardinality(DeleteCalls(del.log)) <= 3 * Len(del.ids)

C31_DeleteTerminates ==
  /\ []BoundedRetries
  /\ <>(del.pc = "returned")

\* a call on six ids has returned after the full cost: every id failed three
\* times, with two back-off waits each
C31_Witness ==
  /\ del.pc = "returned" /\ Len(del.ids) = 6
  /\ \A i \in DOMAIN del.ids : del.fails[del.ids[i]] = maxRetries
  /\ Cardinality(DeleteCalls(del.log)) = 3 * Len(del.ids)
  /\ Cardinality(BackoffWaits(del.log)) = 2 * Len(del.ids)

(***************************************************************************)
(* C32  Checkmarks.  The service keyboard built for (selected_services,    *)
(* language) shows a checkmark on the catalog service X iff X is selected, *)
(* and carries the texts of that language, whatever keyboards were built   *)
(* before: the cache never returns a layout built for another set or       *)
(* language, ids from malformed toggle tokens included.                    *)
(***************************************************************************)
C32_CheckmarkIffSelected ==
  built.n > 0 =>
    /\ \A x \in SERVICE_OPTIONS :
         x \in built.keyboard.checked <=> x \in built.selectedServices
    /\ built.keyboard.language = built.language

(***************************************************************************)
(* C33  One window per session.  Between the synchronous steps of the      *)
(* handlers the session store and the rate-limit store have the same key   *)
(* set: a user has a session iff the user has a rate-limit window, after   *)
(* any sequence of admitted events, rejected events and sweeps.            *)
(***************************************************************************)
C33_SameKeys == DOMAIN userDataMap = DOMAIN rateLimitCache

\* the sweep has just removed the only session, and its window with it
C33_Witness ==
  /\ last.ev.kind = "sweep" /\ last.log # <<>>
  /\ userDataMap = <<>> /\ rateLimitCache = <<>>
  /\ ticks > 0

(***************************************************************************)
(* C34  Selected services are catalog services.  In every reachable state  *)
(* selected_services is a subset of the ids of SERVICE_OPTIONS, so that an *)
(* admitted press of a catalog payment button during which no transport    *)
(* call fails resolves a label for every selected service and ends without *)
(* an exception.                                                           *)
(***************************************************************************)
C34_ServicesInCatalog ==
  \A u \in DOMAIN userDataMap :
    /\ userDataMap[u].selected_services
         \subseteq {"video_call", "tuning", "customs", "logistics"}
    /\ (/\ last.ev.user = u /\ last.ev.kind = "payment" /\ last.admitted
        /\ last.ev.arg \in PAYMENT_OPTIONS
        /\ \A i \in DOMAIN last.log :
             last.log[i].kind # "errorNotice" => last.log[i].ok)
         => ~last.threw

====
